---- MODULE Spec2Model ----
(***************************************************************************)
(* InferenceDeck front end (src/frontend/src/App.vue): the upload          *)
(* controller (uploadFile, handleFileChange, handleFormatChange), the run  *)
(* controller (runAnalysis) and the scatter-chart renderer (renderChart),  *)
(* as one state machine over the component's refs.  Every handler runs to  *)
(* its next await as one step of the single UI event loop; the steps after *)
(* an await are steps of their own.                                        *)
(*                                                                         *)
(* The file holds two versions of the component: the current one (lines    *)
(* 1-698) and an earlier one (lines 699-931) that has only the run button. *)
(* `variant` says which of the two is mounted.                             *)
(*                                                                         *)
(* Strings of the source that are not ASCII are written here in ASCII;     *)
(* a string built from a template literal is the sequence of its pieces.   *)
(***************************************************************************)
EXTENDS Bags, FiniteSets, Integers, Sequences, TLC

\* ------------------------------------------------------------------ bounds
\* Upload requests that may be in flight at once (the code sets no limit).
MaxInFlight == 2
\* Longest plot_data list a run response carries in RenderSpec.
MaxPoints == 3

\* ------------------------------------------------------- values and inputs
\* null / undefined of a ref holding an object.
Null == [null |-> TRUE]
\* selectedFile before any selection (ref(null)).
NoFile == "null"
\* The files the user picks from (File objects, known by name).
Files == {"a.csv", "b.csv"}

\* dataFormatOptions: the eight orientation values, in catalog order.
dataFormatOptions ==
  << "row_feat_col_sample", "row_sample_col_feat", "row_feat", "row_sample",
     "col_feat", "col_sample", "no_name_row_sample", "no_name_row_feat" >>
\* Mutant: the switch has no case for the last orientation.
exampleTextSevenCases(fmt) ==
  CASE fmt = "row_feat_col_sample" -> ",F1,F2\nS1,10,20\nS2,30,40"
    [] fmt = "row_sample_col_feat" -> ",S1,S2\nF1,10,30\nF2,20,40"
    [] fmt = "row_feat" -> "F1,F2\n10,20\n30,40"
    [] fmt = "row_sample" -> "S1,S2\n10,30\n20,40"
    [] fmt = "col_feat" -> "F1,10,20\nF2,30,40"
    [] fmt = "col_sample" -> "S1,10,20\nS2,30,40"
    [] fmt = "no_name_row_sample" -> "10,20\n30,40"
    [] OTHER -> ""

\* exampleText (lines 43-64), as a function of dataFormat.value; F and S
\* stand for the source's words for feature and sample.
exampleText(fmt) ==
  CASE fmt = "row_feat_col_sample" -> ",F1,F2\nS1,10,20\nS2,30,40"
    [] fmt = "row_sample_col_feat" -> ",S1,S2\nF1,10,30\nF2,20,40"
    [] fmt = "row_feat" -> "F1,F2\n10,20\n30,40"
    [] fmt = "row_sample" -> "S1,S2\n10,30\n20,40"
    [] fmt = "col_feat" -> "F1,10,20\nF2,30,40"
    [] fmt = "col_sample" -> "S1,10,20\nS2,30,40"
    [] fmt = "no_name_row_sample" -> "10,20\n30,40"
    [] fmt = "no_name_row_feat" -> "10,30\n20,40"
    [] OTHER -> ""

\* The orientations the user selects among in the explored runs.
FormatInputs == { dataFormatOptions[1], dataFormatOptions[2] }

\* The select offers these; the explored runs pick among AlgorithmInputs.
algorithms == << "K-means", "PIntMF", "Subtype-GAN", "NEMO", "SNF" >>
AlgorithmInputs == { algorithms[1], algorithms[2] }
algorithmsV1 == << "PIntMF", "Subtype-GAN", "NEMO", "SNF" >>
AlgorithmInputsV1 == { algorithmsV1[1], algorithmsV1[2] }

\* What the upload endpoint may answer (spec section 6).
ServerFilenames == {"srv_1.csv", "srv_2.csv"}
NoShape == << >>
Shapes == { NoShape, <<50, 20000>> }
NoDetail == ""
\* shownFormat when the status shown is no response's.
NotShown == "none"
Details == { NoDetail, "bad matrix" }

\* The alert() texts.
PromptNone == ""
PromptSelectFile == "alert: select a file first"
PromptUpload == "alert: upload a data file first"
PromptAlgorithm == "alert: choose an algorithm first"

\* uploadStatus texts.
StatusEmpty == << >>
StatusUploading == << "uploading..." >>
StatusUnreachable == << "[X] upload failed, check that the backend is running" >>
RunErrorText == "cannot reach the backend, check FastAPI and CORS"

VARIABLES
  variant,          \* "current" (lines 1-698) or "earlier" (lines 699-931)
  selectedFile,     \* ref: the held File, or NoFile
  dataFormat,       \* ref: the active orientation
  uploadStatus,     \* ref: the upload status text
  uploadedFilename, \* ref: the server's name of the accepted file, or ""
  uploadsInFlight,  \* bag of the upload requests awaiting their response
  shownFormat,      \* history: the data_format of the request whose response
                    \* wrote the status shown, NotShown when a handler wrote it
  selectedAlgorithm,\* ref
  kValue,           \* ref
  maxIter,          \* ref
  randomSeed,       \* ref
  backendResponse,  \* ref: res.data of the last successful run, or Null
  isLoading,        \* ref
  errorMessage,     \* ref
  runPc,            \* where runAnalysis stands: idle / await_post / await_tick
  runRequest,       \* the body of the run request in flight, or Null
  chartRef,         \* ref: TRUE when the chart container is in the DOM
  echartsCalls,     \* the calls made on echarts for the mounted container
  prompt            \* the alert() raised by the last step, or PromptNone

uploadVars ==
  << selectedFile, dataFormat, uploadStatus, uploadedFilename, uploadsInFlight, shownFormat >>
paramVars == << selectedAlgorithm, kValue, maxIter, randomSeed >>
runVars == << backendResponse, isLoading, errorMessage, runPc, runRequest, chartRef, echartsCalls >>
vars == << variant, uploadVars, paramVars, runVars, prompt >>

\* JavaScript truthiness of a string.
Truthy(s) == s # ""

\* ------------------------------------------------------ upload controller
\* The text of line 99: the success status.
StatusSuccess(data) ==
  << "[OK] uploaded: ", data.original_filename, " / original shape: " >>
    \o (IF data.original_shape # NoShape
        THEN << "(rows=", data.original_shape[1], ", cols=", data.original_shape[2], ")" >>
        ELSE << "" >>)
\* The text of line 106.
StatusNonCompliant(detail) == << "[X] data not compliant: ", detail >>

\* The UploadOutcome the status text shows.
IsIdle(s) == s = StatusEmpty
IsUploading(s) == s = StatusUploading
IsAccepted(s) == s # StatusEmpty /\ s[1] = "[OK] uploaded: "
IsRejected(s) == s = StatusUnreachable \/ (s # StatusEmpty /\ s[1] = "[X] data not compliant: ")

\* Mutant: the request carries the orientation held before the select changed it.
UploadRequestStaleFormat(file, fmt) == [file |-> file, data_format |-> dataFormat]

\* The form data of the upload request (lines 83-85).
UploadRequest(file, fmt) == [file |-> file, data_format |-> fmt]

\* Mutant: the status is not set before the request is sent.
uploadFileLateStatus(file, fmt) ==
  IF file = NoFile
  THEN /\ prompt' = PromptSelectFile
       /\ UNCHANGED << uploadStatus, shownFormat, uploadsInFlight >>
  ELSE /\ UNCHANGED << uploadStatus, shownFormat >>
       /\ uploadsInFlight' = uploadsInFlight (+) SetToBag({UploadRequest(file, fmt)})
       /\ prompt' = PromptNone

\* uploadFile up to its await (lines 77-97), with the held file and the
\* active orientation as read at the call.
uploadFile(file, fmt) ==
  IF file = NoFile
  THEN /\ prompt' = PromptSelectFile
       /\ UNCHANGED << uploadStatus, shownFormat, uploadsInFlight >>
  ELSE /\ uploadStatus' = StatusUploading
       /\ shownFormat' = NotShown
       /\ uploadsInFlight' = uploadsInFlight (+) SetToBag({UploadRequest(file, fmt)})
       /\ prompt' = PromptNone

\* Mutant: a cancelled selection leaves the status text as it is.
handleFileChangeKeepsStatus(file) ==
  /\ variant = "current"
  /\ runPc # "await_tick"
  /\ IF file # NoFile
     THEN /\ BagCardinality(uploadsInFlight) < MaxInFlight
          /\ selectedFile' = file
          /\ uploadFile(file, dataFormat)
     ELSE /\ prompt' = PromptNone
          /\ UNCHANGED << uploadStatus, shownFormat, selectedFile, uploadsInFlight >>
  /\ UNCHANGED << variant, dataFormat, uploadedFilename, paramVars, runVars >>

\* handleFileChange (lines 116-126); file = NoFile is a cancelled selection.
handleFileChange(file) ==
  /\ variant = "current"
  /\ runPc # "await_tick"
  /\ IF file # NoFile
     THEN /\ BagCardinality(uploadsInFlight) < MaxInFlight
          /\ selectedFile' = file
          /\ uploadFile(file, dataFormat)
     ELSE /\ uploadStatus' = StatusEmpty
          /\ shownFormat' = NotShown
          /\ prompt' = PromptNone
          /\ UNCHANGED << selectedFile, uploadsInFlight >>
  /\ UNCHANGED << variant, dataFormat, uploadedFilename, paramVars, runVars >>

\* The select's v-model sets dataFormat, then handleFormatChange (lines 129-134).
handleFormatChange(fmt) ==
  /\ variant = "current"
  /\ runPc # "await_tick"
  /\ fmt # dataFormat
  /\ dataFormat' = fmt
  /\ IF selectedFile # NoFile
     THEN /\ BagCardinality(uploadsInFlight) < MaxInFlight
          /\ uploadFile(selectedFile, fmt)
     ELSE /\ prompt' = PromptNone
          /\ UNCHANGED << uploadStatus, shownFormat, uploadsInFlight >>
  /\ UNCHANGED << variant, selectedFile, uploadedFilename, paramVars, runVars >>

\* Mutant: the catch block leaves the stored filename as it is.
uploadCatchKeepsFilename(detail) ==
  [ status |-> IF Truthy(detail) THEN StatusNonCompliant(detail) ELSE StatusUnreachable,
    filename |-> uploadedFilename ]

\* Mutant: the catch block ignores the detail of the response.
uploadCatchGenericOnly(detail) ==
  [ status |-> StatusUnreachable, filename |-> "" ]

\* Mutant: the catch block clears the filename but writes no status.
uploadCatchKeepsStatus(detail) ==
  [ status |-> uploadStatus, filename |-> "" ]

\* The catch block of uploadFile (lines 103-112): status and stored filename.
uploadCatch(detail) ==
  [ status |-> IF Truthy(detail) THEN StatusNonCompliant(detail) ELSE StatusUnreachable,
    filename |-> "" ]

\* The success path of uploadFile (lines 98-101).
uploadThen(data) ==
  [ status |-> StatusSuccess(data), filename |-> data.filename ]

\* What the upload endpoint answers to a request: success data or a failure.
UploadSuccessData(req) ==
  [ filename : ServerFilenames, original_filename : {req.file}, original_shape : Shapes ]

\* Mutant: the response of a request whose orientation is no longer the
\* selected one is dropped.
uploadApplyLatestOnly(req, outcome) ==
  /\ variant = "current"
  /\ runPc # "await_tick"
  /\ BagIn(req, uploadsInFlight)
  /\ uploadsInFlight' = uploadsInFlight (-) SetToBag({req})
  /\ IF req.data_format = dataFormat
     THEN /\ uploadStatus' = outcome.status
          /\ shownFormat' = req.data_format
          /\ uploadedFilename' = outcome.filename
     ELSE UNCHANGED << uploadStatus, shownFormat, uploadedFilename >>
  /\ prompt' = PromptNone
  /\ UNCHANGED << variant, selectedFile, dataFormat, paramVars, runVars >>

\* The response of one request in flight arrives and the code after the
\* await writes its outcome (lines 98-112).
uploadApply(req, outcome) ==
  /\ variant = "current"
  /\ runPc # "await_tick"
  /\ BagIn(req, uploadsInFlight)
  /\ uploadsInFlight' = uploadsInFlight (-) SetToBag({req})
  /\ uploadStatus' = outcome.status
  /\ shownFormat' = req.data_format
  /\ uploadedFilename' = outcome.filename
  /\ prompt' = PromptNone
  /\ UNCHANGED << variant, selectedFile, dataFormat, paramVars, runVars >>

\* uploadFile after its await, the request fulfilled (lines 98-101).
uploadResolve ==
  \E req \in BagToSet(uploadsInFlight) :
    \E data \in UploadSuccessData(req) : uploadApply(req, uploadThen(data))

\* uploadFile after its await, the request rejected (lines 103-112).
uploadReject ==
  \E req \in BagToSet(uploadsInFlight) :
    \E detail \in Details : uploadApply(req, uploadCatch(detail))

\* ------------------------------------------------------ JavaScript helpers
\* String(n) of an integer, as its UTF-16 code units ("-" is 45, "0" is 48).
RECURSIVE Digits(_)
Digits(n) == IF n < 10 THEN << 48 + n >> ELSE Digits(n \div 10) \o << 48 + (n % 10) >>
NumberToString(n) == IF n < 0 THEN << 45 >> \o Digits(0 - n) ELSE Digits(n)

\* a < b for two strings: the order of their code units.
StrLess(a, b) ==
  \E k \in 0..Len(a) :
    /\ k <= Len(b)
    /\ \A i \in 1..k : a[i] = b[i]
    /\ \/ k = Len(a) /\ k < Len(b)
       \/ k < Len(a) /\ k < Len(b) /\ a[k + 1] < b[k + 1]

\* The comparison Array.prototype.sort() makes when given no comparator:
\* TRUE when x sorts strictly before y.
SortBefore(x, y) == StrLess(NumberToString(x), NumberToString(y))

\* s.sort() with no comparator (stable).
RECURSIVE SortInsert(_, _)
SortInsert(x, s) ==
  IF s = << >> THEN << x >>
  ELSE IF SortBefore(x, Head(s)) THEN << x >> \o s
  ELSE << Head(s) >> \o SortInsert(x, Tail(s))
RECURSIVE ArraySort(_)
ArraySort(s) ==
  IF s = << >> THEN << >>
  ELSE SortInsert(s[Len(s)], ArraySort(SubSeq(s, 1, Len(s) - 1)))

\* [...new Set(s)]: the distinct elements in order of first appearance.
RECURSIVE SetSpread(_)
SetSpread(s) ==
  IF s = << >> THEN << >>
  ELSE LET d == SetSpread(SubSeq(s, 1, Len(s) - 1))
       IN IF \E i \in 1..Len(d) : d[i] = s[Len(s)] THEN d ELSE Append(d, s[Len(s)])

\* s.map(f) and s.filter(p).
ArrayMap(s, f(_)) == [i \in 1..Len(s) |-> f(s[i])]
ArrayFilter(s, p(_)) == SelectSeq(s, p)

\* ------------------------------------------------------------- renderChart
\* plot_data as received: an array of points, or some other truthy value.
PlotArray(items) == [array |-> items]
PlotObject == [object |-> TRUE]
IsArray(pd) == "array" \in DOMAIN pd

\* `Cluster ${clusterId}`
SeriesName(clusterId) == << "Cluster " >> \o NumberToString(clusterId)

\* One element of seriesData (lines 144-154).
Series(items, clusterId) ==
  LET IsMember(item) == item.cluster = clusterId
      Datum(p) == << p.x, p.y, p.name >>
      clusterPoints == ArrayFilter(items, IsMember)
  IN [ name |-> SeriesName(clusterId),
       type |-> "scatter",
       symbolSize |-> 10,
       data |-> ArrayMap(clusterPoints, Datum),
       itemStyle |-> [opacity |-> "0.8"] ]

\* Mutant: the ids are sorted without going through a Set.
ClustersNoSet(items) ==
  LET ClusterOf(item) == item.cluster
  IN ArraySort(ArrayMap(items, ClusterOf))

\* The cluster ids in the order the series are built (line 142).
Clusters(items) ==
  LET ClusterOf(item) == item.cluster
  IN ArraySort(SetSpread(ArrayMap(items, ClusterOf)))

\* The option handed to setOption (lines 158-181); the tooltip formatter is
\* a function of the hovered point and is not part of the state.
ChartOption(items) ==
  LET clusters == Clusters(items)
      SeriesOf(c) == Series(items, c)
  IN [ series |-> ArrayMap(clusters, SeriesOf),
       legend |-> [bottom |-> "5%", data |-> ArrayMap(clusters, SeriesName)],
       xAxis |-> [name |-> "PC 1", splitLine |-> [show |-> FALSE]],
       yAxis |-> [name |-> "PC 2", splitLine |-> [show |-> FALSE]] ]

\* The guard of line 138: TRUE when renderChart returns at once.
renderChartReturnsEarly(ref, plot_data) == ~ref \/ plot_data = Null

\* renderChart (lines 137-182): the calls it makes on echarts and whether it
\* throws (plot_data.map is not a function when plot_data is no array).
renderChart(ref, plot_data) ==
  IF renderChartReturnsEarly(ref, plot_data)
  THEN [calls |-> << >>, threw |-> FALSE]
  ELSE IF ~IsArray(plot_data)
  THEN [calls |-> << [fn |-> "init"] >>, threw |-> TRUE]
  ELSE [calls |-> << [fn |-> "init"],
                     [fn |-> "setOption", option |-> ChartOption(plot_data.array)] >>,
        threw |-> FALSE]

\* --------------------------------------------------------- run controller
\* What the run endpoint may answer (spec section 6): res.data is Null, or
\* an object whose data is Null or holds metrics and plot_data, each of
\* them possibly missing (Null).
SampleMetrics == [silhouette |-> "0.41", calinski |-> "120.3", davies |-> "0.77"]
RunData(plots) == [ metrics : {Null, SampleMetrics}, plot_data : {Null} \cup plots ]
RunBodies(plots) ==
  {Null} \cup [ status : {"success"}, message : {"done"}, data : {Null} \cup RunData(plots) ]

\* The points of a response: two samples, each in any cluster.
ClusterIds == {-1, 2, 10}
Samples == { [x |-> 1, y |-> 2, name |-> "s1"], [x |-> 3, y |-> 4, name |-> "s2"] }
Points ==
  { [x |-> s.x, y |-> s.y, name |-> s.name, cluster |-> c] : s \in Samples, c \in ClusterIds }
PointSeqs(n) == UNION { [1..k -> Points] : k \in 0..n }
\* plot_data values of the responses in Spec and in RenderSpec.
SpecPlots ==
  { PlotObject, PlotArray(<< >>),
    PlotArray(<< [x |-> 1, y |-> 2, name |-> "s1", cluster |-> 2] >>) }
RenderPlots == { PlotArray(items) : items \in PointSeqs(MaxPoints) }

\* The parameter inputs of the explored runs (the number inputs accept any
\* number; min and max only mark the field invalid).
KInputs == {1, 3}
SeedInputs == {42}
IterInputs == {300}

\* The select's v-model (lines 281-285, 763-767).
selectAlgorithm(algo) ==
  /\ runPc # "await_tick"
  /\ algo \in (IF variant = "current" THEN AlgorithmInputs ELSE AlgorithmInputsV1)
  /\ algo # selectedAlgorithm
  /\ selectedAlgorithm' = algo
  /\ prompt' = PromptNone
  /\ UNCHANGED << variant, uploadVars, kValue, maxIter, randomSeed, runVars >>

\* The number inputs of the K-means box (lines 287-304).
inputParams(k, seed, iter) ==
  /\ variant = "current"
  /\ runPc # "await_tick"
  /\ selectedAlgorithm = "K-means"
  /\ kValue' = k /\ randomSeed' = seed /\ maxIter' = iter
  /\ prompt' = PromptNone
  /\ UNCHANGED << variant, uploadVars, selectedAlgorithm, runVars >>

\* Mutant: the algorithm is not checked.
runPreconditionNoAlgorithm(filename, algo) ==
  IF ~Truthy(filename) THEN PromptUpload ELSE PromptNone

\* The precondition checks of runAnalysis (lines 186-193): the alert raised,
\* or PromptNone when both pass.
runPrecondition(filename, algo) ==
  IF ~Truthy(filename) THEN PromptUpload
  ELSE IF ~Truthy(algo) THEN PromptAlgorithm
  ELSE PromptNone

\* The body of the run request (lines 204-211); timestamp is the clock's
\* reading at the call and is left out.
RunRequestBody ==
  [ algorithm |-> selectedAlgorithm, filename |-> uploadedFilename,
    n_clusters |-> kValue, random_state |-> randomSeed, max_iter |-> maxIter ]

\* Mutant: the previous error message is not cleared.
runStartKeepsError(body) ==
  /\ isLoading' = TRUE
  /\ errorMessage' = errorMessage
  /\ backendResponse' = Null
  /\ runRequest' = body
  /\ runPc' = "await_post"
  /\ chartRef' = FALSE
  /\ echartsCalls' = << >>

\* Lines 195-198 and the post of line 204; the re-render that follows
\* unmounts the result area (v-if of line 315), chart container included.
runStart(body) ==
  /\ isLoading' = TRUE
  /\ errorMessage' = ""
  /\ backendResponse' = Null
  /\ runRequest' = body
  /\ runPc' = "await_post"
  /\ chartRef' = FALSE
  /\ echartsCalls' = << >>

\* Mutant: the run button is not disabled while isLoading.
runAnalysisButtonEnabled ==
  /\ variant = "current"
  /\ runPc # "await_tick"
  /\ prompt' = runPrecondition(uploadedFilename, selectedAlgorithm)
  /\ IF prompt' = PromptNone
     THEN runStart(RunRequestBody)
     ELSE UNCHANGED runVars
  /\ UNCHANGED << variant, uploadVars, paramVars >>

\* The click on the run button, which isLoading alone disables (line 309):
\* runAnalysis up to its first await (lines 185-204).
runAnalysis ==
  /\ variant = "current"
  /\ runPc # "await_tick"
  /\ ~isLoading
  /\ prompt' = runPrecondition(uploadedFilename, selectedAlgorithm)
  /\ IF prompt' = PromptNone
     THEN runStart(RunRequestBody)
     ELSE UNCHANGED runVars
  /\ UNCHANGED << variant, uploadVars, paramVars >>

\* Mutant: isLoading is cleared at the end of the try block, not in finally.
runSettleNoFinally(threw) ==
  /\ errorMessage' = (IF threw THEN RunErrorText ELSE errorMessage)
  /\ isLoading' = (IF threw THEN isLoading ELSE FALSE)
  /\ runPc' = "idle"

\* Mutant: isLoading is never cleared.
runSettleNeverClears(threw) ==
  /\ errorMessage' = (IF threw THEN RunErrorText ELSE errorMessage)
  /\ UNCHANGED isLoading
  /\ runPc' = "idle"

\* The catch and finally blocks (lines 219-225, 732-737), threw saying
\* whether the try block threw.
runSettle(threw) ==
  /\ errorMessage' = (IF threw THEN RunErrorText ELSE errorMessage)
  /\ isLoading' = FALSE
  /\ runPc' = "idle"

\* Mutant: a response without metrics is treated as a failure.
runResolveRequiresMetrics(bodies) ==
  /\ variant = "current"
  /\ runPc = "await_post"
  /\ \E body \in bodies :
       /\ backendResponse' = body
       /\ IF body = Null \/ body.data = Null \/ body.data.metrics = Null
          THEN /\ runSettle(TRUE)
               /\ chartRef' = FALSE
          ELSE IF body.data.plot_data # Null
          THEN /\ runPc' = "await_tick"
               /\ UNCHANGED << isLoading, errorMessage, chartRef >>
          ELSE /\ runSettle(FALSE)
               /\ chartRef' = TRUE
  /\ runRequest' = Null
  /\ prompt' = PromptNone
  /\ UNCHANGED << variant, uploadVars, paramVars, echartsCalls >>

\* runAnalysis after the post is fulfilled (lines 212-215): res.data is
\* recorded; reading res.data.data.plot_data throws when res.data or
\* res.data.data is missing; a truthy plot_data leads to await nextTick().
runResolve(bodies) ==
  /\ variant = "current"
  /\ runPc = "await_post"
  /\ \E body \in bodies :
       /\ backendResponse' = body
       /\ IF body = Null \/ body.data = Null
          THEN /\ runSettle(TRUE)
               /\ chartRef' = FALSE
          ELSE IF body.data.plot_data # Null
          THEN /\ runPc' = "await_tick"
               /\ UNCHANGED << isLoading, errorMessage, chartRef >>
          ELSE /\ runSettle(FALSE)
               /\ chartRef' = TRUE
  /\ runRequest' = Null
  /\ prompt' = PromptNone
  /\ UNCHANGED << variant, uploadVars, paramVars, echartsCalls >>

\* Mutant: renderChart is called without awaiting nextTick, the result area
\* not yet mounted.
runAfterTickNoFlush ==
  /\ runPc = "await_tick"
  /\ UNCHANGED chartRef
  /\ LET r == renderChart(chartRef, backendResponse.data.plot_data)
     IN /\ echartsCalls' = r.calls
        /\ runSettle(r.threw)
  /\ prompt' = PromptNone
  /\ UNCHANGED << variant, uploadVars, paramVars, backendResponse, runRequest >>

\* runAnalysis after nextTick (lines 215-217): the result area is mounted
\* (chartRef bound, line 336) and renderChart runs.
runAfterTick ==
  /\ runPc = "await_tick"
  /\ chartRef' = TRUE
  /\ LET r == renderChart(chartRef', backendResponse.data.plot_data)
     IN /\ echartsCalls' = r.calls
        /\ runSettle(r.threw)
  /\ prompt' = PromptNone
  /\ UNCHANGED << variant, uploadVars, paramVars, backendResponse, runRequest >>

\* Mutant: a failed run also discards the accepted upload.
runRejectClearsUpload ==
  /\ variant = "current"
  /\ runPc = "await_post"
  /\ runSettle(TRUE)
  /\ runRequest' = Null
  /\ prompt' = PromptNone
  /\ uploadedFilename' = ""
  /\ uploadStatus' = StatusUnreachable
  /\ UNCHANGED << variant, selectedFile, dataFormat, uploadsInFlight, shownFormat,
                  paramVars, backendResponse, chartRef, echartsCalls >>

\* runAnalysis after the post is rejected (lines 219-225).
runReject ==
  /\ variant = "current"
  /\ runPc = "await_post"
  /\ runSettle(TRUE)
  /\ runRequest' = Null
  /\ prompt' = PromptNone
  /\ UNCHANGED << variant, uploadVars, paramVars, backendResponse, chartRef, echartsCalls >>

\* ------------------------------------------ the earlier variant's run button
\* runAnalysis of the earlier variant up to its await (lines 713-726).
runAnalysisV1 ==
  /\ variant = "earlier"
  /\ runPc # "await_tick"
  /\ ~isLoading
  /\ runStart([algorithm |-> selectedAlgorithm])
  /\ prompt' = PromptNone
  /\ UNCHANGED << variant, uploadVars, paramVars >>

\* Lines 729-730 and 735-737.
runResolveV1(bodies) ==
  /\ variant = "earlier"
  /\ runPc = "await_post"
  /\ \E body \in bodies : backendResponse' = body
  /\ runSettle(FALSE)
  /\ runRequest' = Null
  /\ prompt' = PromptNone
  /\ UNCHANGED << variant, uploadVars, paramVars, chartRef, echartsCalls >>

\* Lines 732-737.
runRejectV1 ==
  /\ variant = "earlier"
  /\ runPc = "await_post"
  /\ runSettle(TRUE)
  /\ runRequest' = Null
  /\ prompt' = PromptNone
  /\ UNCHANGED << variant, uploadVars, paramVars, backendResponse, chartRef, echartsCalls >>

\* ------------------------------------------------------- the specifications
Init ==
  /\ variant \in {"current", "earlier"}
  /\ selectedFile = NoFile
  /\ dataFormat = "row_feat_col_sample"
  /\ uploadStatus = StatusEmpty
  /\ shownFormat = NotShown
  /\ uploadedFilename = ""
  /\ uploadsInFlight = EmptyBag
  /\ selectedAlgorithm = (IF variant = "current" THEN "" ELSE "PIntMF")
  /\ kValue = 3
  /\ maxIter = 300
  /\ randomSeed = 42
  /\ backendResponse = Null
  /\ isLoading = FALSE
  /\ errorMessage = ""
  /\ runPc = "idle"
  /\ runRequest = Null
  /\ chartRef = FALSE
  /\ echartsCalls = << >>
  /\ prompt = PromptNone

Next ==
  \/ \E file \in Files \cup {NoFile} : handleFileChange(file)
  \/ \E fmt \in FormatInputs : handleFormatChange(fmt)
  \/ uploadResolve
  \/ uploadReject
  \/ \E algo \in AlgorithmInputs \cup AlgorithmInputsV1 : selectAlgorithm(algo)
  \/ \E k \in KInputs, seed \in SeedInputs, iter \in IterInputs : inputParams(k, seed, iter)
  \/ runAnalysis
  \/ runResolve(RunBodies(SpecPlots))
  \/ runAfterTick
  \/ runReject
  \/ runAnalysisV1
  \/ runResolveV1(RunBodies(SpecPlots))
  \/ runRejectV1

Spec == Init /\ [][Next]_vars

\* The run controller alone, from the state in which a.csv has been accepted
\* and K-means chosen, its responses carrying every plot_data of RenderPlots.
RenderInit ==
  /\ variant = "current"
  /\ selectedFile = "a.csv"
  /\ dataFormat = "row_feat_col_sample"
  /\ uploadStatus = StatusSuccess([filename |-> "srv_1.csv", original_filename |-> "a.csv",
                                   original_shape |-> <<50, 20000>>])
  /\ uploadedFilename = "srv_1.csv"
  /\ shownFormat = "row_feat_col_sample"
  /\ uploadsInFlight = EmptyBag
  /\ selectedAlgorithm = "K-means"
  /\ kValue = 3
  /\ maxIter = 300
  /\ randomSeed = 42
  /\ backendResponse = Null
  /\ isLoading = FALSE
  /\ errorMessage = ""
  /\ runPc = "idle"
  /\ runRequest = Null
  /\ chartRef = FALSE
  /\ echartsCalls = << >>
  /\ prompt = PromptNone

RenderNext ==
  \/ runAnalysis
  \/ runResolve(RunBodies(RenderPlots))
  \/ runAfterTick
  \/ runReject

RenderSpec == RenderInit /\ [][RenderNext]_vars

\* nextTick's promise is always settled by the scheduler flush, so the step
\* after it is taken once it is enabled; nothing makes the server answer.
\* The upload controller alone, the select ranging over the whole catalog and
\* the file input over one file.
FormatInit == Init /\ variant = "current"
FormatNext ==
  \/ \E file \in {"a.csv", NoFile} : handleFileChange(file)
  \/ \E i \in 1..Len(dataFormatOptions) : handleFormatChange(dataFormatOptions[i])
  \/ uploadResolve
  \/ uploadReject
FormatSpec == FormatInit /\ [][FormatNext]_vars

FairSpec == Spec /\ WF_vars(runAfterTick)

\* RenderInit is a state of Spec.
RenderInitReached == RenderInit

\* ================================================================== claims
InFlight == BagCardinality(uploadsInFlight)
InFlightNext == BagCardinality(uploadsInFlight')
ResultRecorded == backendResponse # Null
ErrorRecorded == errorMessage # ""
AnalysisIdle == ~isLoading /\ ~ResultRecorded /\ ~ErrorRecorded

\* C1: whenever the upload outcome shown is Rejected, no accepted filename is
\* stored, and a runAnalysis call made in that state raises the upload prompt,
\* sends no run request and changes nothing of the run controller.
C1_RejectedBlocksRun ==
  [][ /\ IsRejected(uploadStatus') => uploadedFilename' = ""
      /\ (IsRejected(uploadStatus) /\ runAnalysis) =>
           /\ uploadedFilename = ""
           /\ prompt' = PromptUpload
           /\ runRequest' = Null
           /\ UNCHANGED runVars ]_vars
\* runAnalysis has just been called, an algorithm chosen, with a rejection shown.
C1_Witness ==
  /\ IsRejected(uploadStatus)
  /\ prompt = PromptUpload
  /\ selectedAlgorithm # ""
  /\ selectedFile # NoFile

\* C2 (as claimed): a run request is sent only while the upload outcome shown
\* is Accepted.
C2_RunOnlyWhenAccepted ==
  [][ (variant = "current" /\ runRequest = Null /\ runRequest' # Null)
        => IsAccepted(uploadStatus) ]_vars

\* C3: a runAnalysis call with no stored filename or with no algorithm chosen
\* sends nothing and leaves every ref as it was.
C3_FailedPreconditionChangesNothing ==
  [][ (runAnalysis /\ (uploadedFilename = "" \/ selectedAlgorithm = "")) =>
        /\ prompt' \in {PromptUpload, PromptAlgorithm}
        /\ UNCHANGED << uploadVars, paramVars, runVars >> ]_vars
\* runAnalysis has just been refused for want of an algorithm, an upload
\* being accepted and the analysis outcome Idle.
C3_Witness ==
  /\ prompt = PromptAlgorithm
  /\ IsAccepted(uploadStatus)
  /\ AnalysisIdle
  /\ runPc = "idle"

\* The option of the setOption call made for the recorded result, and the
\* points it was built from.
ChartDrawn == \E i \in 1..Len(echartsCalls) : echartsCalls[i].fn = "setOption"
DrawnOption == echartsCalls[CHOOSE i \in 1..Len(echartsCalls) : echartsCalls[i].fn = "setOption"].option
DrawnItems == backendResponse.data.plot_data.array
IdsOf(items) == { items[j].cluster : j \in 1..Len(items) }
\* The ids of a set in ascending numeric order.
RECURSIVE Ascending(_)
Ascending(ids) ==
  IF ids = {} THEN << >>
  ELSE LET least == CHOOSE m \in ids : \A n \in ids : m <= n
       IN << least >> \o Ascending(ids \ {least})
\* The positions of the points of cluster c, and the k-th of them.
PositionsOf(items, c) == { j \in 1..Len(items) : items[j].cluster = c }
KthPosition(items, c, k) ==
  CHOOSE j \in PositionsOf(items, c) :
    Cardinality({ q \in PositionsOf(items, c) : q < j }) = k - 1

\* C4 (as claimed): the series and the legend entries are one per distinct
\* cluster id, in ascending numeric order of the ids.
C4_SeriesAscendingNumeric ==
  ChartDrawn =>
    LET names == [i \in 1..Len(DrawnOption.series) |-> DrawnOption.series[i].name]
        wanted == Ascending(IdsOf(DrawnItems))
    IN /\ names = [i \in 1..Len(wanted) |-> SeriesName(wanted[i])]
       /\ DrawnOption.legend.data = names

\* C5: the series partition the points: for each cluster id exactly one
\* series bears its name, holding exactly the points of that id in their
\* original order; no series is empty or bears another name; the series
\* together hold as many points as the input.
C5_SeriesPartitionPoints ==
  ChartDrawn =>
    LET series == DrawnOption.series
        items == DrawnItems
    IN /\ \A c \in IdsOf(items) :
            \E i \in 1..Len(series) :
              /\ series[i].name = SeriesName(c)
              /\ \A h \in 1..Len(series) : series[h].name = SeriesName(c) => h = i
              /\ Len(series[i].data) = Cardinality(PositionsOf(items, c))
              /\ \A k \in 1..Len(series[i].data) :
                   LET p == items[KthPosition(items, c, k)]
                   IN series[i].data[k] = << p.x, p.y, p.name >>
       /\ \A i \in 1..Len(series) :
            /\ series[i].data # << >>
            /\ \E c \in IdsOf(items) : series[i].name = SeriesName(c)
       /\ Len(series) = Cardinality(IdsOf(items))
\* A chart of two series or more, one of them holding two points that are
\* not neighbours in the input.
C5_Witness ==
  /\ ChartDrawn
  /\ Len(DrawnOption.series) >= 2
  /\ \E c \in IdsOf(DrawnItems) : PositionsOf(DrawnItems, c) = {1, 3}

\* C6 (as claimed): a result whose plot_data is the empty list leads to no
\* call on echarts and to no error.
C6_EmptyPointsNoRenderCall ==
  (/\ runPc = "idle"
   /\ ResultRecorded
   /\ backendResponse.data # Null
   /\ backendResponse.data.plot_data = PlotArray(<< >>))
    => (echartsCalls = << >> /\ ~ErrorRecorded)

\* C7 (as claimed): when the handling of a run request finishes, exactly one
\* of a result and an error message is recorded.
C7_ExactlyOneOutcome ==
  [][ (variant = "current" /\ runPc # "idle" /\ runPc' = "idle")
        => (ResultRecorded' /\ ~ErrorRecorded') \/ (~ResultRecorded' /\ ErrorRecorded') ]_vars

\* C8 (as claimed): isLoading is true exactly when a run request has been
\* issued and neither its result nor its error is recorded yet.
C8_LoadingIffRunning ==
  isLoading <=> (runPc # "idle" /\ ~ResultRecorded /\ ~ErrorRecorded)
\* C8 (amended): isLoading is true exactly while a run is being handled, from
\* passing the preconditions to the end of the response handling; it is false
\* wherever an error is recorded, and true with a result recorded only while
\* the deferred render is pending.
C8_LoadingWhileHandling ==
  /\ isLoading <=> runPc # "idle"
  /\ ErrorRecorded => ~isLoading
  /\ (ResultRecorded /\ isLoading) => runPc = "await_tick"
\* The result is recorded and the render is pending: still loading.
C8_Witness == runPc = "await_tick" /\ isLoading /\ ResultRecorded

\* C9: once the response of a run request has arrived, isLoading is cleared:
\* in the step that handles the response, or else the handling waits for
\* nextTick and isLoading is cleared after it, a failed render included.
C9_LoadingEventuallyCleared ==
  /\ [][ (runPc = "await_post" /\ runPc' # "await_post")
           => (~isLoading' \/ runPc' = "await_tick") ]_vars
  /\ (runPc = "await_tick") ~> (~isLoading /\ runPc = "idle")
\* A render has thrown after its echarts call, and loading is cleared.
C9_Witness ==
  /\ runPc = "idle"
  /\ ~isLoading
  /\ ErrorRecorded
  /\ echartsCalls # << >>

\* C10: a file selection sets the outcome to Uploading in the step that
\* issues its upload request; requests are issued only so, and a terminal
\* outcome is recorded only by the response of a request in flight.
C10_UploadingBeforeTerminal ==
  [][ /\ \A file \in Files :
           handleFileChange(file) =>
             /\ IsUploading(uploadStatus')
             /\ uploadsInFlight' = uploadsInFlight (+) SetToBag({UploadRequest(file, dataFormat)})
      /\ InFlightNext > InFlight => IsUploading(uploadStatus')
      /\ ((IsAccepted(uploadStatus') \/ IsRejected(uploadStatus')) /\ uploadStatus' # uploadStatus)
           => (InFlight > 0 /\ InFlightNext = InFlight - 1) ]_vars
\* A file is held, its upload in flight and Uploading shown.
C10_Witness ==
  /\ IsUploading(uploadStatus)
  /\ selectedFile # NoFile
  /\ uploadsInFlight = SetToBag({UploadRequest(selectedFile, dataFormat)})

\* C11: a cancelled file selection issues no upload request and leaves the
\* outcome Idle, whatever the state it is made in.
C11_CancelledSelectionIdle ==
  [][ handleFileChange(NoFile) =>
        /\ IsIdle(uploadStatus')
        /\ uploadsInFlight' = uploadsInFlight ]_vars
\* Idle is shown although a filename is stored and a file held: the status
\* of an accepted upload has been cleared by a cancelled selection.
C11_Witness ==
  /\ IsIdle(uploadStatus)
  /\ uploadedFilename # ""
  /\ selectedFile # NoFile
  /\ InFlight = 0

\* C12: an orientation change with no file held issues no upload request and
\* changes neither the status nor the stored filename; with a file held it
\* issues exactly one request, carrying that file and the new orientation.
C12_OrientationChangeUploads ==
  [][ \A fmt \in FormatInputs :
        handleFormatChange(fmt) =>
          /\ dataFormat' = fmt
          /\ selectedFile = NoFile =>
               UNCHANGED << uploadsInFlight, uploadStatus, uploadedFilename >>
          /\ selectedFile # NoFile =>
               uploadsInFlight' =
                 uploadsInFlight (+) SetToBag({[file |-> selectedFile, data_format |-> fmt]}) ]_vars
\* The held file is being re-validated under an orientation other than the
\* initial one.
C12_Witness ==
  /\ selectedFile # NoFile
  /\ dataFormat # "row_feat_col_sample"
  /\ BagIn([file |-> selectedFile, data_format |-> dataFormat], uploadsInFlight)
  /\ IsUploading(uploadStatus)

\* C13: a failed upload is shown as Rejected and leaves no stored filename;
\* the reason shown is the detail of the response, verbatim, when it has one,
\* and the fixed backend-unreachable text when it has none.
C13_UploadFailureRejected ==
  [][ \A req \in BagToSet(uploadsInFlight), detail \in Details :
        uploadApply(req, uploadCatch(detail)) =>
          /\ IsRejected(uploadStatus')
          /\ uploadedFilename' = ""
          /\ detail # NoDetail => uploadStatus' = << "[X] data not compliant: ", detail >>
          /\ detail = NoDetail => uploadStatus' = StatusUnreachable ]_vars
\* A rejection with the server's reason is shown while a file is held.
C13_Witness ==
  /\ uploadStatus = << "[X] data not compliant: ", "bad matrix" >>
  /\ uploadedFilename = ""
  /\ selectedFile # NoFile

\* C14: requests leave flight one at a time and only by their response,
\* which is applied whichever request it answers: the status shown becomes
\* that response's (an acceptance naming the request's file, with a filename
\* stored, or a rejection with none), and it is not Uploading once no request
\* is left in flight.
C14_EveryResponseApplied ==
  [][ /\ InFlightNext >= InFlight - 1
      /\ InFlightNext < InFlight =>
           \E req \in BagToSet(uploadsInFlight) :
             /\ uploadsInFlight' = uploadsInFlight (-) SetToBag({req})
             /\ shownFormat' = req.data_format
             /\ \/ /\ IsAccepted(uploadStatus')
                   /\ uploadStatus'[2] = req.file
                   /\ uploadedFilename' \in ServerFilenames
                \/ /\ IsRejected(uploadStatus')
                   /\ uploadedFilename' = "" ]_vars
\* All uploads have resolved and the outcome shown answers a request made
\* under an orientation that is no longer the selected one.
C14_Witness ==
  /\ InFlight = 0
  /\ IsAccepted(uploadStatus) \/ IsRejected(uploadStatus)
  /\ shownFormat # NotShown
  /\ shownFormat # dataFormat

\* The echarts.init calls among the calls made for the mounted container.
InitCalls(calls) == { i \in 1..Len(calls) : calls[i].fn = "init" }

\* C15: the renderer acts only in the step after nextTick, with the result
\* recorded, no error recorded and nothing drawn yet for this run; in that
\* step the chart container is mounted and the chart initialised, once.
C15_RenderAfterResultVisible ==
  [][ /\ (echartsCalls' # echartsCalls /\ echartsCalls' # << >>) =>
           /\ runPc = "await_tick"
           /\ ResultRecorded /\ ResultRecorded'
           /\ ~ErrorRecorded
           /\ echartsCalls = << >>
      /\ (runPc = "await_tick" /\ runPc' = "idle") =>
           /\ chartRef'
           /\ Cardinality(InitCalls(echartsCalls')) = 1
      /\ (runPc # "await_tick" /\ runPc' = "idle") => echartsCalls' = echartsCalls ]_vars
\* A chart has been drawn for the recorded result and the run is over.
C15_Witness ==
  /\ ChartDrawn
  /\ runPc = "idle"
  /\ ResultRecorded
  /\ ~ErrorRecorded
  /\ ~isLoading

\* The recorded response has a payload that lacks metrics, plot_data or both,
\* and its plot_data, when present, is an array of points.
PartialResult ==
  /\ ResultRecorded
  /\ backendResponse.data # Null
  /\ \/ backendResponse.data.metrics = Null
     \/ backendResponse.data.plot_data = Null
  /\ \/ backendResponse.data.plot_data = Null
     \/ IsArray(backendResponse.data.plot_data)

\* C16: once the run that received a success response lacking metrics,
\* plot_data or both is over, the result is recorded, no error message is set
\* and loading is off; when plot_data is absent nothing was drawn.
C16_PartialResultSucceeds ==
  (runPc = "idle" /\ PartialResult) =>
     /\ ~ErrorRecorded
     /\ ~isLoading
     /\ backendResponse.data.plot_data = Null => echartsCalls = << >>
\* A response with neither metrics nor plot_data has been recorded by the
\* current variant and the run is over.
C16_Witness ==
  /\ variant = "current"
  /\ runPc = "idle"
  /\ PartialResult
  /\ backendResponse.data.metrics = Null
  /\ backendResponse.data.plot_data = Null
  /\ ~ErrorRecorded

\* The steps of the run controller and of the upload controller.
RunStep ==
  \/ runAnalysis
  \/ runResolve(RunBodies(SpecPlots))
  \/ runAfterTick
  \/ runReject
UploadStep ==
  \/ \E file \in Files \cup {NoFile} : handleFileChange(file)
  \/ \E fmt \in FormatInputs : handleFormatChange(fmt)
  \/ uploadResolve
  \/ uploadReject

\* C17: a step of the run controller leaves the held file, the upload status
\* and the accepted filename as they were; a step of the upload controller
\* leaves the recorded result, the error message and the loading flag as they
\* were.
C17_ControllersDisjoint ==
  [][ /\ RunStep => UNCHANGED << selectedFile, uploadStatus, uploadedFilename >>
      /\ UploadStep => UNCHANGED << backendResponse, errorMessage, isLoading >> ]_vars
\* A run has failed while an upload is accepted, and the acceptance is still
\* shown.
C17_Witness ==
  /\ variant = "current"
  /\ runPc = "idle"
  /\ ErrorRecorded
  /\ ~ResultRecorded
  /\ IsAccepted(uploadStatus)
  /\ uploadedFilename # ""

\* C18 (as claimed): every run request sent carries the filename returned by
\* the upload response whose acceptance is shown when it is sent, and that
\* filename is not empty.
C18_RunCarriesAcceptedFilename ==
  [][ (variant = "current" /\ runRequest = Null /\ runRequest' # Null) =>
        /\ IsAccepted(uploadStatus)
        /\ runRequest'.filename = uploadedFilename
        /\ runRequest'.filename \in ServerFilenames ]_vars

\* The values of the catalog are pairwise distinct.
CatalogDistinct ==
  \A i, j \in 1..Len(dataFormatOptions) :
    dataFormatOptions[i] = dataFormatOptions[j] => i = j

\* C19: the active orientation is row_feat_col_sample at first and at any
\* time one value of the catalog; the catalog has eight pairwise distinct
\* values; the example text of each of them, and so the one shown for the
\* active orientation, is a non-empty literal.
C19_OneOrientationOfEight ==
  /\ dataFormat = "row_feat_col_sample"
  /\ [] /\ \E i \in 1..Len(dataFormatOptions) : dataFormat = dataFormatOptions[i]
        /\ Len(dataFormatOptions) = 8
        /\ CatalogDistinct
        /\ \A i \in 1..Len(dataFormatOptions) : exampleText(dataFormatOptions[i]) # ""
        /\ exampleText(dataFormat) # ""
\* The last orientation of the catalog is active, with a file held and its
\* upload under that orientation in flight, and its example is shown.
C19_Witness ==
  /\ dataFormat = dataFormatOptions[8]
  /\ exampleText(dataFormat) = "10,30\n20,40"
  /\ selectedFile # NoFile
  /\ BagIn([file |-> selectedFile, data_format |-> dataFormat], uploadsInFlight)

\* C20 (as claimed): handleFileChange leaves its argument as the held file,
\* the status empty when the argument is absent; and while the status is
\* empty with nothing in flight (at first, or after a cancelled selection) a
\* change of orientation sends no upload request.
C20_SelectReplacesHeldFile ==
  [][ /\ \A file \in Files \cup {NoFile} :
           handleFileChange(file) =>
             /\ selectedFile' = file
             /\ file = NoFile => IsIdle(uploadStatus')
      /\ \A fmt \in FormatInputs :
           (handleFormatChange(fmt) /\ IsIdle(uploadStatus) /\ InFlight = 0) =>
             uploadsInFlight' = uploadsInFlight ]_vars

\* C21: the step that sends a run request turns loading on and leaves no
\* result and no error message recorded, whatever was recorded before; and
\* as long as the request is unanswered, loading is on and no result and no
\* error message is recorded.
C21_RunStartClearsPrevious ==
  [][ /\ (runRequest = Null /\ runRequest' # Null) =>
           /\ isLoading'
           /\ errorMessage' = ""
           /\ backendResponse' = Null
      /\ runRequest' # Null =>
           /\ runPc' = "await_post"
           /\ isLoading'
           /\ ~ResultRecorded'
           /\ ~ErrorRecorded' ]_vars
\* A run request is in flight and unanswered, nothing of an earlier run
\* recorded.
C21_Witness ==
  /\ runRequest # Null
  /\ runPc = "await_post"
  /\ isLoading
  /\ ~ResultRecorded
  /\ ~ErrorRecorded

\* C22 (as claimed): every run request sent by the current variant carries
\* as n_clusters an integer of at least 2.
C22_ClusterCountAtLeastTwo ==
  [][ (variant = "current" /\ runRequest = Null /\ runRequest' # Null) =>
        /\ runRequest'.n_clusters \in Int
        /\ runRequest'.n_clusters >= 2 ]_vars

\* C23: whenever the status shown is the uploading text, at least one upload
\* request is in flight.
C23_UploadingHasRequest ==
  IsUploading(uploadStatus) => InFlight >= 1
\* Uploading is shown for the one request in flight, sent after an earlier
\* upload was accepted and a change of orientation.
C23_Witness ==
  /\ IsUploading(uploadStatus)
  /\ InFlight = 1
  /\ uploadedFilename # ""
  /\ dataFormat # "row_feat_col_sample"
  /\ selectedFile # NoFile
\* The converse fails: a request is in flight while Idle is shown.
C23_RequestWhileIdle ==
  /\ IsIdle(uploadStatus)
  /\ InFlight >= 1

\* C24: a run request is sent only while loading is off and no response is
\* being handled; while one is outstanding or being handled loading is on
\* and no other request replaces it; a result or an error message is written
\* only by the step that answers the outstanding request or finishes its
\* handling.
C24_OneRunOutstanding ==
  [][ /\ (runRequest' # Null /\ runRequest' # runRequest) =>
           /\ runRequest = Null
           /\ runPc = "idle"
           /\ ~isLoading
      /\ (runRequest # Null \/ runPc # "idle") => isLoading
      /\ (runRequest' # Null \/ runPc' # "idle") => isLoading'
      /\ \/ (backendResponse' # backendResponse /\ backendResponse' # Null)
         \/ (errorMessage' # errorMessage /\ errorMessage' # "")
         => /\ isLoading
            /\ \/ (runPc = "await_post" /\ runRequest # Null /\ runRequest' = Null)
               \/ runPc = "await_tick" ]_vars
\* While the run request is outstanding an upload has been answered with
\* another filename than the one the request carries, and a further upload
\* is in flight.
C24_Witness ==
  /\ variant = "current"
  /\ runRequest # Null
  /\ isLoading
  /\ IsAccepted(uploadStatus) \/ IsUploading(uploadStatus)
  /\ uploadedFilename # ""
  /\ runRequest.filename # uploadedFilename
  /\ InFlight >= 1
====
